---- MODULE Spec2Model ----
(***************************************************************************)
(* Session/auth boundary of the Tweeps frontend: the localStorage token    *)
(* store, the API client and auth service (lib/auth.ts, lib/utils.ts), the *)
(* AuthProvider context (contexts/auth-context.tsx and its refreshAuth     *)
(* variant), and the edge middleware variants.                             *)
(*                                                                         *)
(* JavaScript values: a nullable value is a sequence of length 0 (null /   *)
(* undefined) or 1 (the value).                                            *)
(***************************************************************************)
EXTENDS Integers, Sequences, FiniteSets, TLC

VARIABLES
  localStorage,   \* window.localStorage: function from the present keys to strings
  cookies,        \* the browser's cookie jar: function from present names to strings
  last,           \* the operation that completed last, with its argument and result
  mw,             \* which middleware source file is deployed at the edge
  validSessions,  \* backend: the credentials /api/auth/verify accepts
  response,       \* the edge's answer to the last page request
  provider,       \* which AuthProvider source file is deployed
  lib,            \* which source file is deployed as @/lib/auth
  phase,          \* AuthProvider: "rendered" (effects not yet run), "mounted"
  user,           \* AuthProvider state: useState<User | null>
  isLoading,      \* AuthProvider state
  isAuthenticated,\* AuthProvider state (useState in the refreshAuth variant)
  effectPending,  \* the [user] effect is scheduled and has not run yet
  inflight,       \* the fetches that have not resolved yet
  hrefPending,    \* window.location.href = '/login' was assigned
  route,          \* the route the router shows
  timer,          \* target of the pending setTimeout(router.push), "" if none
  loading,        \* the shown form's loading state (its submit button is disabled)
  authStatus,     \* ProtectedRoute state: 'loading' | 'authenticated' | 'unauthenticated'
  cartItems,      \* CartPage state: the displayed items, each with id and quantity
  serverCart,     \* backend: the cart's quantity for each item it holds
  cartRequests    \* CartPage: the PATCH / DELETE fetches not yet resolved, in send order

storeVars == <<localStorage, cookies>>
edgeVars == <<mw, validSessions, response>>
deployVars == <<provider, lib>>
ctxVars == <<phase, user, isLoading, isAuthenticated, effectPending>>
netVars == <<inflight>>
navVars == <<hrefPending, route, timer, loading>>
viewVars == <<authStatus>>
cartVars == <<cartItems, serverCart, cartRequests>>
clientVars == <<deployVars, ctxVars, netVars, navVars, viewVars, cartVars>>
vars == <<localStorage, cookies, last, edgeVars, clientVars>>

----------------------------------------------------------------------------
(* Bounds and value sets *)

\* token strings the store and the backend exchange; "" is the falsy string
TokenStrings == {"", "abc", "xyz"}

None == <<>>
Some(v) == <<v>>

\* JavaScript truthiness of a nullable string: null, undefined and "" are falsy
Truthy(opt) == opt # None /\ opt[1] # ""

\* AuthTokens: access_token is a string, refresh_token is optional
AuthTokens == [access_token : TokenStrings,
               refresh_token : {None} \cup {Some(t) : t \in TokenStrings}]

StoreKeys == {"access_token", "refresh_token"}

\* every content the two token keys of localStorage can have
StoreContents ==
  UNION {[K -> TokenStrings] : K \in SUBSET StoreKeys}

----------------------------------------------------------------------------
(* localStorage (Web Storage API) *)

setItem(ls, k, v) == [x \in (DOMAIN ls) \cup {k} |-> IF x = k THEN v ELSE ls[x]]

removeItem(ls, k) == [x \in (DOMAIN ls) \ {k} |-> ls[x]]

getItem(ls, k) == IF k \in DOMAIN ls THEN Some(ls[k]) ELSE None

----------------------------------------------------------------------------
(* lib/auth.ts: the token store *)

storeTokens_wrongKey(ls, tokens) ==
  LET a == setItem(ls, "accessToken", tokens.access_token)
  IN  IF Truthy(tokens.refresh_token)
      THEN setItem(a, "refreshToken", tokens.refresh_token[1])
      ELSE a

storeTokens(ls, tokens) ==
  LET a == setItem(ls, "access_token", tokens.access_token)
  IN  IF Truthy(tokens.refresh_token)
      THEN setItem(a, "refresh_token", tokens.refresh_token[1])
      ELSE a

\* removeTokens removing one key per call
removeTokens_oneKey(ls) ==
  IF "access_token" \in DOMAIN ls THEN removeItem(ls, "access_token")
  ELSE removeItem(ls, "refresh_token")

removeTokens(ls) == removeItem(removeItem(ls, "access_token"), "refresh_token")

getAccessToken(ls) == getItem(ls, "access_token")

----------------------------------------------------------------------------
(* The store on its own: any prior content, then any sequence of calls *)

NoOp == [op |-> "init"]

NoResponse == [kind |-> "none"]

\* the client as the page load leaves it: useState initial values, nothing issued
InitClient ==
  /\ phase = "rendered"
  /\ user = None
  /\ isLoading = TRUE
  /\ isAuthenticated = FALSE
  /\ effectPending = FALSE
  /\ inflight = {}
  /\ hrefPending = FALSE
  /\ timer = ""
  /\ loading = FALSE
  /\ authStatus = "loading"
  /\ cartItems = << >>
  /\ serverCart = << >>
  /\ cartRequests = << >>

InitStore ==
  /\ localStorage \in StoreContents
  /\ cookies = << >>
  /\ last = NoOp
  /\ mw = "middleware.ts"
  /\ validSessions = {}
  /\ response = NoResponse
  /\ provider = "auth-context.tsx"
  /\ lib = "auth.ts"
  /\ route = "/"
  /\ InitClient

StoreTokensCall ==
  \E tokens \in AuthTokens :
    /\ localStorage' = storeTokens(localStorage, tokens)
    /\ last' = [op |-> "storeTokens", tokens |-> tokens, before |-> localStorage]
    /\ UNCHANGED <<cookies, edgeVars, clientVars>>

RemoveTokensCall ==
  /\ localStorage' = removeTokens(localStorage)
  /\ last' = [op |-> "removeTokens", before |-> localStorage]
  /\ UNCHANGED <<cookies, edgeVars, clientVars>>

GetAccessTokenCall ==
  /\ last' = [op |-> "getAccessToken", ret |-> getAccessToken(localStorage),
              before |-> localStorage]
  /\ UNCHANGED <<storeVars, edgeVars, clientVars>>

NextStore == StoreTokensCall \/ RemoveTokensCall \/ GetAccessTokenCall

SpecStore == InitStore /\ [][NextStore]_vars

----------------------------------------------------------------------------
(* Text: a path is a sequence of one-character strings *)

RECURSIVE Str(_)
\* the string a sequence of characters spells
Str(cs) == IF cs = <<>> THEN "" ELSE Head(cs) \o Str(Tail(cs))

RECURSIVE Concat(_)
Concat(ss) == IF ss = <<>> THEN <<>> ELSE Head(ss) \o Concat(Tail(ss))

\* a pattern element that stands for the regular expression's "." (any character)
AnyChar == "ANY"

StartsWith(s, pat) ==
  /\ Len(s) >= Len(pat)
  /\ \A i \in 1..Len(pat) : pat[i] = AnyChar \/ s[i] = pat[i]

Contains(s, pat) ==
  \E k \in 0..(Len(s) - Len(pat)) :
    \A i \in 1..Len(pat) : pat[i] = AnyChar \/ s[k + i] = pat[i]

P_root == <<"/">>
P_login == <<"/","l","o","g","i","n">>
P_signup == <<"/","s","i","g","n","u","p">>
P_forgot == <<"/","f","o","r","g","o","t","-","p","a","s","s","w","o","r","d">>
P_cart == <<"/","c","a","r","t">>
P_dashboard == <<"/","d","a","s","h","b","o","a","r","d">>
P_orders == <<"/","o","r","d","e","r","s","/","4","2">>
P_my_cart == <<"/","m","y"," ","c","a","r","t">>
P_api == <<"/","a","p","i","/","c","a","r","t">>
P_png == <<"/","l","o","g","o",".","p","n","g">>
P_webp == <<"/","h","e","r","o",".","w","e","b","p">>

\* the paths a browser requests in the model
Paths == {P_root, P_login, P_signup, P_forgot, P_cart, P_dashboard, P_orders,
          P_my_cart, P_api, P_png, P_webp}

----------------------------------------------------------------------------
(* URLSearchParams.set / toString: application/x-www-form-urlencoded *)

Unreserved ==
  {"a","b","c","d","e","f","g","h","i","j","k","l","m","n","o","p","q","r",
   "s","t","u","v","w","x","y","z","0","1","2","3","4","5","6","7","8","9",
   "*","-",".","_"}

FormEncodeChar(c) ==
  IF c \in Unreserved THEN <<c>>
  ELSE IF c = " " THEN <<"+">>
  ELSE IF c = "/" THEN <<"%","2","F">>
  ELSE IF c = "?" THEN <<"%","3","F">>
  ELSE <<"%","2","5">>          \* "%" itself; no other character occurs in Paths

FormEncode(cs) == Concat([i \in 1..Len(cs) |-> FormEncodeChar(cs[i])])

RECURSIVE FormDecode(_)
\* URLSearchParams.get: what the login page reads back from the query string
FormDecode(cs) ==
  IF cs = <<>> THEN <<>>
  ELSE IF Head(cs) = "+" THEN <<" ">> \o FormDecode(Tail(cs))
  ELSE IF Head(cs) = "%" /\ Len(cs) >= 3 THEN
    LET hex == <<cs[2], cs[3]>>
        c == IF hex = <<"2","F">> THEN "/"
             ELSE IF hex = <<"3","F">> THEN "?"
             ELSE "%"
    IN  <<c>> \o FormDecode(SubSeq(cs, 4, Len(cs)))
  ELSE <<Head(cs)>> \o FormDecode(Tail(cs))

----------------------------------------------------------------------------
(* Edge middleware: middleware.ts, the copy in lib/auth.ts, and the         *)
(* verifying variant                                                        *)

MwSources == {"middleware.ts", "auth.ts", "part_005"}

\* alternatives of the matcher's negative lookahead that exclude by prefix
ExcludedPrefixes ==
  {<<"a","p","i">>,
   <<"_","n","e","x","t","/","s","t","a","t","i","c">>,
   <<"_","n","e","x","t","/","i","m","a","g","e">>,
   <<"f","a","v","i","c","o","n",AnyChar,"i","c","o">>,
   <<"p","u","b","l","i","c">>}

\* alternatives of the form .*\.ext
ExcludedExtensions(src) ==
  {<<".","s","v","g">>, <<".","g","i","f">>}
  \cup (IF src \in {"middleware.ts", "part_005"} THEN {<<".","p","n","g">>} ELSE {})
  \cup (IF src = "part_005" THEN {<<".","w","e","b","p">>} ELSE {})

\* config.matcher: '/((?!api|_next/static|...|.*\.svg|...).*)'
matcher(src, pathname) ==
  /\ pathname # <<>> /\ Head(pathname) = "/"
  /\ \A p \in ExcludedPrefixes : ~StartsWith(Tail(pathname), p)
  /\ \A e \in ExcludedExtensions(src) : ~Contains(Tail(pathname), e)

publicPaths(src) ==
  {P_root, P_login, P_signup, P_forgot} \cup (IF src = "part_005" THEN {P_cart} ELSE {})

\* the cookie each variant reads as the credential
cookieName(src) == IF src = "middleware.ts" THEN "access_token" ELSE "session"

Redirect(src, pathname, to, from, verify, deletes) ==
  [kind |-> "redirect", by |-> src, pathname |-> pathname, to |-> to,
   from |-> from, verify |-> verify, deletes |-> deletes]

PassThrough(src, pathname, verify, deletes) ==
  [kind |-> "next", by |-> src, pathname |-> pathname, to |-> pathname,
   from |-> None, verify |-> verify, deletes |-> deletes]

\* the middleware without its "if (!token)" block
middleware_noGuard(src, jar, pathname) ==
  LET token == getItem(jar, cookieName(src))
  IN  IF pathname \in publicPaths(src) /\ Truthy(token) /\ pathname \in {P_login, P_signup}
      THEN Redirect(src, pathname, P_dashboard, None, "none", {})
      ELSE PassThrough(src, pathname, "none", {})

\* middleware.ts and the middleware in lib/auth.ts: presence of the cookie decides
middleware(src, jar, pathname) ==
  LET token == getItem(jar, cookieName(src))
  IN  IF pathname \in publicPaths(src)
      THEN IF Truthy(token) /\ pathname \in {P_login, P_signup}
           THEN Redirect(src, pathname, P_dashboard, None, "none", {})
           ELSE PassThrough(src, pathname, "none", {})
      ELSE IF ~Truthy(token)
           THEN Redirect(src, pathname, P_login, Some(FormEncode(pathname)), "none", {})
           ELSE PassThrough(src, pathname, "none", {})

\* outcomes of fetch(.../api/auth/verify) at the edge
VerifyOutcomes == {"ok", "rejected", "threw"}

\* the verifying middleware; verify is the outcome of its fetch, "none" if it made none
middleware_verifying(src, jar, pathname, verify) ==
  LET session == getItem(jar, cookieName(src))
  IN  IF pathname \in publicPaths(src)
      THEN IF pathname \in {P_login, P_signup} /\ Truthy(session)
           THEN CASE verify = "ok" -> Redirect(src, pathname, P_dashboard, None, verify, {})
                  [] verify = "threw" -> PassThrough(src, pathname, verify, {"session"})
                  [] OTHER -> PassThrough(src, pathname, verify, {})
           ELSE PassThrough(src, pathname, "none", {})
      ELSE IF ~Truthy(session)
           THEN Redirect(src, pathname, P_login, Some(FormEncode(pathname)), "none", {})
           ELSE IF verify = "ok"
                THEN PassThrough(src, pathname, verify, {})
                ELSE Redirect(src, pathname, P_login, Some(FormEncode(pathname)), verify, {})

\* whether the verifying middleware reaches a fetch for this request
CallsVerify(src, jar, pathname) ==
  /\ src = "part_005"
  /\ Truthy(getItem(jar, cookieName(src)))
  /\ pathname \in publicPaths(src) => pathname \in {P_login, P_signup}

\* the answers the backend and the network can give the edge for a credential
VerifyResults(token) ==
  {"threw"} \cup (IF token \in validSessions THEN {"ok"} ELSE {"rejected"})

\* the request carries a credential the backend accepts at this moment
Accepted(src, jar) ==
  /\ cookieName(src) \in DOMAIN jar
  /\ jar[cookieName(src)] \in validSessions

CookieNames == {"session", "access_token"}

CookieJars == UNION {[K -> TokenStrings] : K \in SUBSET CookieNames}

ApplyDeletes(jar, names) == [n \in (DOMAIN jar) \ names |-> jar[n]]

InitEdge ==
  /\ localStorage = << >>
  /\ cookies \in CookieJars
  /\ last = NoOp
  /\ mw \in MwSources
  /\ validSessions \in SUBSET (TokenStrings \ {""})
  /\ response = NoResponse
  /\ provider = "auth-context.tsx"
  /\ lib = "auth.ts"
  /\ route = "/"
  /\ InitClient

\* the browser requests a page; the edge answers; the jar follows Set-Cookie
PageRequest(pathname) ==
  /\ LET sent == [jar |-> cookies, valid |-> Accepted(mw, cookies)]
     IN  IF ~matcher(mw, pathname)
         THEN response' = sent @@
                [kind |-> "bypass", by |-> mw, pathname |-> pathname,
                 to |-> pathname, from |-> None, verify |-> "none", deletes |-> {}]
         ELSE IF mw = "part_005"
         THEN \E v \in (IF CallsVerify(mw, cookies, pathname)
                        THEN VerifyResults(cookies[cookieName(mw)]) ELSE {"none"}) :
                response' = sent @@ middleware_verifying(mw, cookies, pathname, v)
         ELSE response' = sent @@ middleware(mw, cookies, pathname)
  /\ cookies' = ApplyDeletes(cookies, response'.deletes)
  /\ UNCHANGED <<localStorage, last, mw, validSessions, clientVars>>

Navigate == \E pathname \in Paths : PageRequest(pathname)

\* the browser follows the redirect it was answered with
FollowRedirect ==
  /\ response.kind = "redirect"
  /\ PageRequest(response.to)

\* the backend invalidates a credential (expiry, revocation)
SessionExpires ==
  \E t \in validSessions :
    /\ validSessions' = validSessions \ {t}
    /\ UNCHANGED <<localStorage, cookies, last, mw, response, clientVars>>

NextEdge == Navigate \/ FollowRedirect \/ SessionExpires

SpecEdge == InitEdge /\ [][NextEdge]_vars

----------------------------------------------------------------------------
(* Backend responses as the client's fetch sees them *)

\* User records of the backend
Users == {[id |-> "1", name |-> "A"], [id |-> "2", name |-> "B"]}
U1 == [id |-> "1", name |-> "A"]
U2 == [id |-> "2", name |-> "B"]

\* no fetch was made
NoFetch == [status |-> -1, json |-> FALSE, errors |-> <<>>, message |-> <<>>,
            user |-> <<>>, tokens |-> <<>>, cookie |-> "keep"]

\* a response: status 0 is a fetch that rejects (the request never got an answer);
\* json says whether the body parses; cookie is the response's Set-Cookie for
\* the session cookie ("keep": none, "set": a new session, "clear": deletion)
Resp(status, json, errors, message, usr, tokens, cookie) ==
  [status |-> status, json |-> json, errors |-> errors, message |-> message,
   user |-> usr, tokens |-> tokens, cookie |-> cookie]

R_network == Resp(0, FALSE, None, None, None, None, "keep")
R_ok_tokens ==
  Resp(200, TRUE, None, None, Some(U1),
       Some([access_token |-> "abc", refresh_token |-> None]), "keep")
R_ok_refresh ==
  Resp(200, TRUE, None, None, Some(U2),
       Some([access_token |-> "xyz", refresh_token |-> Some("abc")]), "keep")
R_ok_cookie == Resp(200, TRUE, None, None, Some(U1), None, "set")
R_ok_empty == Resp(200, TRUE, None, None, None, None, "keep")
R_401 == Resp(401, TRUE, None, Some("Invalid credentials"), None, None, "keep")
R_401_clear == Resp(401, TRUE, None, Some("Invalid credentials"), None, None, "clear")
R_400_taken == Resp(400, TRUE, Some(<<"already taken">>), None, None, None, "keep")
R_400_two ==
  Resp(400, TRUE, Some(<<"already taken", "too weak">>), Some("Invalid"), None, None, "keep")
R_400_message == Resp(400, TRUE, None, Some("Bad request"), None, None, "keep")
R_500_empty == Resp(500, TRUE, None, None, None, None, "keep")
R_422_errors ==
  Resp(422, TRUE, Some(<<"already taken">>), Some("Unprocessable"), None, None, "keep")
R_500_html == Resp(500, FALSE, None, None, None, None, "keep")

R_ok_user == Resp(200, TRUE, None, None, Some(U1), None, "keep")

\* GET /api/auth/verify, /api/auth/me
VerifyResponses == {R_network, R_ok_user, R_ok_empty, R_401, R_500_html}

\* POST /api/auth/login, /api/auth/signup
AuthResponses ==
  {R_network, R_ok_tokens, R_ok_refresh, R_ok_cookie, R_401, R_400_taken, R_400_two,
   R_400_message, R_500_html}

\* POST /api/auth/logout
LogoutResponses == {R_network, R_ok_empty, R_401, R_401_clear, R_500_html}

\* any other endpoint
ApiResponses ==
  {R_network, R_ok_empty, R_401, R_401_clear, R_400_taken, R_400_message,
   R_422_errors, R_500_empty, R_500_html}

\* response.ok
Ok(resp) == resp.status >= 200 /\ resp.status <= 299

\* the browser applies the response's Set-Cookie (credentials: 'include')
ApplySetCookie(jar, resp) ==
  CASE resp.cookie = "set" -> setItem(jar, "session", "abc")
    [] resp.cookie = "clear" -> removeItem(jar, "session")
    [] OTHER -> jar

RECURSIVE Join(_, _)
\* Array.prototype.join
Join(msgs, sep) ==
  IF msgs = <<>> THEN ""
  ELSE IF Len(msgs) = 1 THEN msgs[1]
  ELSE msgs[1] \o sep \o Join(Tail(msgs), sep)

----------------------------------------------------------------------------
(* lib/utils.ts: the cached user data *)

\* JSON.stringify(user); undefined when user is undefined, which setItem stores
\* as the string "undefined"
stringify(usr) ==
  IF usr = None THEN "undefined"
  ELSE "{\"id\":\"" \o usr[1].id \o "\",\"name\":\"" \o usr[1].name \o "\"}"

storeUserData(ls, usr) == setItem(ls, "user_data", stringify(usr))

clearUserData(ls) == removeItem(ls, "user_data")

getUserData(ls) == getItem(ls, "user_data")

----------------------------------------------------------------------------
(* apiClient, login, signup, logout of lib/auth.ts and lib/utils.ts: what   *)
(* each does with the response of its fetch.  The result says what the      *)
(* call did to localStorage (ls), whether it assigned window.location.href  *)
(* (href), and whether it threw (threw, name, message) or returned (data).  *)

LibSources == {"auth.ts", "utils.ts"}

SessionExpiredMessage == "Session expired. Please login again."
GenericMessage == "An error occurred"

Thrown(ls, href, name, message) ==
  [ls |-> ls, href |-> href, threw |-> TRUE, name |-> name, message |-> message]

Returned(ls, href, data) ==
  [ls |-> ls, href |-> href, threw |-> FALSE, name |-> "", message |-> "",
   data |-> data]

\* apiClient with the branch for a 400 response's errors map left out
apiClient_noErrors(src, ls, resp) ==
  IF resp.status = 0
  THEN Thrown(ls, FALSE, "TypeError", "Failed to fetch")
  ELSE IF resp.status = 401
  THEN Thrown(IF src = "auth.ts" THEN removeTokens(ls) ELSE clearUserData(ls),
              TRUE, "Error", SessionExpiredMessage)
  ELSE IF ~resp.json
  THEN Thrown(ls, FALSE, "SyntaxError", "Unexpected token < in JSON")
  ELSE IF ~Ok(resp)
  THEN Thrown(ls, FALSE, "Error",
              IF Truthy(resp.message) THEN resp.message[1] ELSE GenericMessage)
  ELSE Returned(ls, FALSE, resp)

apiClient(src, ls, resp) ==
  IF resp.status = 0
  THEN Thrown(ls, FALSE, "TypeError", "Failed to fetch")
  ELSE IF resp.status = 401
  THEN Thrown(IF src = "auth.ts" THEN removeTokens(ls) ELSE clearUserData(ls),
              TRUE, "Error", SessionExpiredMessage)
  ELSE IF ~resp.json
  THEN Thrown(ls, FALSE, "SyntaxError", "Unexpected token < in JSON")
  ELSE IF ~Ok(resp)
  THEN IF resp.status = 400 /\ resp.errors # None
       THEN Thrown(ls, FALSE, "Error", Join(resp.errors[1], ", "))
       ELSE Thrown(ls, FALSE, "Error",
                   IF Truthy(resp.message) THEN resp.message[1] ELSE GenericMessage)
  ELSE Returned(ls, FALSE, resp)

UndefinedTokens == "Cannot read properties of undefined (reading 'access_token')"

login(src, ls, resp) ==
  LET r == apiClient(src, ls, resp)
  IN  IF r.threw THEN r
      ELSE IF src = "utils.ts"
      THEN Returned(storeUserData(r.ls, resp.user), r.href, resp)
      ELSE IF resp.tokens = None
      THEN Thrown(r.ls, r.href, "TypeError", UndefinedTokens)
      ELSE Returned(storeTokens(r.ls, resp.tokens[1]), r.href, resp)

signup(src, ls, resp) ==
  LET r == apiClient(src, ls, resp)
  IN  IF r.threw THEN r
      ELSE IF src = "utils.ts"
      THEN Returned(storeUserData(r.ls, resp.user), r.href, resp)
      ELSE IF resp.tokens # None
      THEN Returned(storeTokens(r.ls, resp.tokens[1]), r.href, resp)
      ELSE r

\* logout without its catch block: the failure of apiClient leaves the function
logout_rethrows(src, ls, resp) ==
  LET r == apiClient(src, ls, resp)
      cleared == IF src = "utils.ts" THEN clearUserData(r.ls) ELSE removeTokens(r.ls)
  IN  IF r.threw THEN [r EXCEPT !.ls = cleared]
      ELSE Returned(cleared, src = "utils.ts" \/ r.href, None)

\* try { await apiClient } catch { log } finally { clear }
logout(src, ls, resp) ==
  LET r == apiClient(src, ls, resp)
  IN  IF src = "utils.ts"
      THEN Returned(clearUserData(r.ls), TRUE, None)
      ELSE Returned(removeTokens(r.ls), r.href, None)

----------------------------------------------------------------------------
(* The login and signup forms (app/login/page.tsx) *)

UpperCase == <<"A","B","C","D","E","F","G","H","I","J","K","L","M",
               "N","O","P","Q","R","S","T","U","V","W","X","Y","Z">>
LowerCase == <<"a","b","c","d","e","f","g","h","i","j","k","l","m",
               "n","o","p","q","r","s","t","u","v","w","x","y","z">>
Digits == {"0","1","2","3","4","5","6","7","8","9"}
Specials == {"@","$","!","%","*","#","?","&"}

Range(f) == {f[i] : i \in DOMAIN f}

toLowerCaseChar(c) ==
  IF \E i \in 1..26 : UpperCase[i] = c
  THEN LowerCase[CHOOSE i \in 1..26 : UpperCase[i] = c]
  ELSE c

\* String.prototype.toLowerCase
toLowerCase(cs) == [i \in 1..Len(cs) |-> toLowerCaseChar(cs[i])]

RECURSIVE trimStart(_)
trimStart(cs) == IF cs # <<>> /\ Head(cs) = " " THEN trimStart(Tail(cs)) ELSE cs

RECURSIVE trimEnd(_)
trimEnd(cs) ==
  IF cs # <<>> /\ cs[Len(cs)] = " " THEN trimEnd(SubSeq(cs, 1, Len(cs) - 1)) ELSE cs

\* String.prototype.trim
trim(cs) == trimEnd(trimStart(cs))

\* /^[^\s@]+@[^\s@]+\.[^\s@]+$/
emailRegex(cs) ==
  /\ \A i \in 1..Len(cs) : cs[i] # " "
  /\ Cardinality({i \in 1..Len(cs) : cs[i] = "@"}) = 1
  /\ LET at == CHOOSE i \in 1..Len(cs) : cs[i] = "@"
     IN  /\ at > 1
         /\ \E dot \in (at + 2)..(Len(cs) - 1) : cs[dot] = "."

\* /^\+?1?\d{9,15}$/
phoneRegex(cs) ==
  LET a == IF cs # <<>> /\ Head(cs) = "+" THEN Tail(cs) ELSE cs
      digits(x) == \A i \in 1..Len(x) : x[i] \in Digits
  IN  /\ digits(a)
      /\ \/ Len(a) \in 9..15
         \/ a # <<>> /\ Head(a) = "1" /\ Len(a) - 1 \in 9..15

\* /^(?=.*[A-Za-z])(?=.*\d)(?=.*[@$!%*#?&])[A-Za-z\d@$!%*#?&]{8,}$/
passwordRegex(cs) ==
  LET letters == Range(UpperCase) \cup Range(LowerCase)
  IN  /\ \E i \in 1..Len(cs) : cs[i] \in letters
      /\ \E i \in 1..Len(cs) : cs[i] \in Digits
      /\ \E i \in 1..Len(cs) : cs[i] \in Specials
      /\ \A i \in 1..Len(cs) : cs[i] \in letters \cup Digits \cup Specials
      /\ Len(cs) >= 8

E_mixed == <<"U","S","E","R","@","E","x","a","m","p","l","e",".","c","o","m">>
E_lower == <<"u","s","e","r","@","e","x","a","m","p","l","e",".","c","o","m">>
E_bad == <<"U","S","E","R","@","c","o","m">>
Pw_secret == <<"s","e","c","r","e","t","1","2","3">>
Pw_strong == <<"s","3","c","r","e","t","!","2","3">>
Pw_short == <<"a","b","c">>
Name_padded == <<" ","A","n","n"," ">>
Name_short == <<" ","A"," ">>
Phone_ok == <<"+","2","5","4","7","0","0","0","0","0","0","0","0">>
Phone_bad == <<"0","7","0","0">>

\* the forms a user submits to LoginPage
LoginForms ==
  [email : {E_mixed, E_bad}, password : {Pw_secret, Pw_short},
   rememberMe : BOOLEAN]

\* LoginPage.validateForm
validateLogin(form) ==
  /\ form.email # <<>> /\ emailRegex(form.email)
  /\ form.password # <<>> /\ Len(form.password) >= 8

\* the submissions that get past validateForm
AcceptedLoginForms == {form \in LoginForms : validateLogin(form)}

\* the forms a user submits to SignupPage
SignupForms ==
  [username : {Name_padded, Name_short}, email : {E_mixed, E_bad},
   phone_contact : {Phone_ok, Phone_bad}, password : {Pw_strong, Pw_secret},
   confirm_password : {Pw_strong}]

\* SignupPage.validateForm
validateSignup(form) ==
  /\ Len(trim(form.username)) >= 3
  /\ form.email # <<>> /\ emailRegex(form.email)
  /\ form.phone_contact # <<>> /\ phoneRegex(form.phone_contact)
  /\ form.password # <<>> /\ Len(form.password) >= 8 /\ passwordRegex(form.password)
  /\ form.confirm_password # <<>> /\ form.password = form.confirm_password

\* the submissions that get past validateForm
AcceptedSignupForms == {form \in SignupForms : validateSignup(form)}

----------------------------------------------------------------------------
(* The client: one page of the app with its AuthProvider, the auth library  *)
(* and the forms, and the fetches they have in flight                       *)

\* most fetches one page has in flight at a time
MaxInFlight == 2

ProviderSources == {"auth-context.tsx", "part_004"}

\* what localStorage can hold when a page loads: it outlives the page, and both
\* spellings of the token keys are read by the sources
LoadedStores ==
  {<< >>,
   [access_token |-> "abc"],
   [accessToken |-> "abc", refreshToken |-> "xyz"]}

\* the fetch is issued and its caller suspends.  seq orders the fetches in
\* flight by their time of issue; stale is set on a verification once a
\* verification issued later has resolved
Issue(op, token, body) ==
  LET seq == IF inflight = {} THEN 1
             ELSE 1 + (CHOOSE n \in {r.seq : r \in inflight} :
                         \A r \in inflight : r.seq <= n)
  IN  /\ Cardinality(inflight) < MaxInFlight
      /\ inflight' = inflight \cup {[seq |-> seq, op |-> op, token |-> token,
                                     body |-> body, stale |-> FALSE]}

\* the operations whose fetch verifies the stored token
VerifyOps == {"initializeAuth", "refreshAuth"}

\* the fetches left in flight when req resolves, numbered again from 1; a
\* verification issued before the verification req is stale from now on
Resolve(req) ==
  LET rest == inflight \ {req}
  IN  {[r EXCEPT !.stale = r.stale \/ (r.seq < req.seq /\ r.op \in VerifyOps
                                                      /\ req.op \in VerifyOps),
                 !.seq = Cardinality({x \in rest : x.seq <= r.seq})] : r \in rest}

\* the operation that just completed, for the observer
Done(op, resp, r, stale) ==
  [op |-> op, resp |-> resp, threw |-> r.threw, name |-> r.name,
   message |-> r.message, stale |-> stale]

Quiet == [threw |-> FALSE, name |-> "", message |-> ""]

\* the body of a parsed JSON response
Body(resp) == [user |-> resp.user, tokens |-> resp.tokens, message |-> resp.message]

\* a failure path that leaves the stored tokens alone
removeCamelTokens_keeps(ls) == ls

\* the two localStorage.removeItem calls of the refreshAuth variant
removeCamelTokens(ls) == removeItem(removeItem(ls, "accessToken"), "refreshToken")

\* verifyAuth of the refreshAuth variant: the response's data, or null
verifyAuth(resp) ==
  IF resp.status = 0 \/ ~Ok(resp) \/ ~resp.json THEN None ELSE Some(Body(resp))

Init ==
  /\ localStorage \in LoadedStores
  /\ cookies \in {<< >>, [session |-> "abc"]}
  /\ last = NoOp
  /\ mw = "middleware.ts"
  /\ validSessions = {}
  /\ response = NoResponse
  /\ provider \in ProviderSources
  /\ lib \in LibSources
  /\ route = "/dashboard"
  /\ InitClient

\* the browser has loaded the login or the signup page
InitForms ==
  /\ localStorage \in LoadedStores
  /\ cookies \in {<< >>, [session |-> "abc"]}
  /\ last = NoOp
  /\ mw = "middleware.ts"
  /\ validSessions = {}
  /\ response = NoResponse
  /\ provider \in ProviderSources
  /\ lib \in LibSources
  /\ route \in {"/login", "/signup"}
  /\ InitClient

\* router.push(target): the shown page changes, a newly shown form is not loading
Push(target) ==
  /\ route' = target
  /\ loading' = (loading /\ route = target)

\* the isAuthenticated the context value carries: !!user in auth-context.tsx,
\* the isAuthenticated state in the refreshAuth variant
ExposedIsAuthenticated ==
  IF provider = "auth-context.tsx" THEN user # None ELSE isAuthenticated

\* what ProtectedRoute's first effect computes from the context
ContextStatus ==
  IF isLoading THEN "loading"
  ELSE IF ExposedIsAuthenticated THEN "authenticated" ELSE "unauthenticated"

\* ProtectedRoute is mounted (the dashboard page is shown) and an effect of
\* its last render has not run yet
ViewStale ==
  /\ route = "/dashboard"
  /\ response.kind \in {"none", "landed"}
  /\ phase = "mounted"
  /\ authStatus # ContextStatus \/ (~isLoading /\ ~ExposedIsAuthenticated)

\* what ProtectedRoute returns in this render: its children, or the spinner / null
ChildrenRendered ==
  route = "/dashboard" /\ phase = "mounted" /\ authStatus = "authenticated"

\* all effects of the last render have run: the next event can be handled
Idle == phase = "mounted" /\ ~effectPending /\ ~ViewStale

\* a read that yields the string 'null' where no token is stored
ProviderToken_orNull(ls) ==
  LET token == IF provider = "auth-context.tsx" THEN getAccessToken(ls)
               ELSE getItem(ls, "accessToken")
  IN  IF token = None THEN Some("null") ELSE token

\* the token the deployed AuthProvider reads: getAccessToken() in
\* auth-context.tsx, localStorage.getItem('accessToken') in the refreshAuth variant
ProviderToken(ls) ==
  IF provider = "auth-context.tsx" THEN getAccessToken(ls) ELSE getItem(ls, "accessToken")

\* a state setter that still applies the update after the unmount
SetState_afterUnmount(old, new) == new

\* a state setter called from a continuation (setUser, setIsAuthenticated,
\* setIsLoading): React drops the update of a component that has unmounted
SetState(old, new) == IF phase = "unmounted" THEN old ELSE new

\* the first effect without the finally block on the path that finds no token
ProviderMount_staysLoading ==
  /\ phase = "rendered"
  /\ phase' = "mounted"
  /\ LET token == ProviderToken(localStorage)
     IN  IF Truthy(token)
         THEN /\ Issue("initializeAuth", token, None)
              /\ UNCHANGED isLoading
         ELSE /\ UNCHANGED isLoading
              /\ UNCHANGED netVars
  /\ UNCHANGED <<user, isAuthenticated, effectPending>>
  /\ last' = [op |-> "mount"]
  /\ UNCHANGED <<storeVars, edgeVars, deployVars, cartVars, viewVars, navVars>>

\* the effects of the first render: initializeAuth up to its first await, and
\* (refreshAuth variant) the [user] effect
ProviderMount ==
  /\ phase = "rendered"
  /\ phase' = "mounted"
  /\ LET token == ProviderToken(localStorage)
     IN  IF Truthy(token)
         THEN /\ Issue("initializeAuth", token, None)
              /\ UNCHANGED isLoading
         ELSE /\ isLoading' = FALSE
              /\ UNCHANGED netVars
  /\ UNCHANGED <<user, isAuthenticated, effectPending>>
  /\ last' = [op |-> "mount"]
  /\ UNCHANGED <<storeVars, edgeVars, deployVars, cartVars, viewVars, navVars>>

\* the fetch of initializeAuth resolves and initializeAuth runs to its end
InitializeAuthResolve ==
  \E req \in inflight, resp \in VerifyResponses :
    /\ req.op = "initializeAuth"
    /\ ~ViewStale
    /\ inflight' = Resolve(req)
    /\ IF provider = "auth-context.tsx"
       THEN IF resp.status # 0 /\ Ok(resp) /\ resp.json
            THEN /\ user' = SetState(user, Some(Body(resp)))
                 /\ UNCHANGED localStorage
            ELSE /\ user' = SetState(user, None)
                 /\ localStorage' = removeTokens(localStorage)
       ELSE LET result == verifyAuth(resp)
            IN  IF result # None /\ result[1].user # None
                THEN /\ user' = SetState(user, result[1].user)
                     /\ isAuthenticated' = SetState(isAuthenticated, TRUE)
                     /\ UNCHANGED localStorage
                ELSE /\ user' = SetState(user, None)
                     /\ isAuthenticated' = SetState(isAuthenticated, FALSE)
                     /\ localStorage' = removeCamelTokens(localStorage)
    /\ provider = "auth-context.tsx" => UNCHANGED isAuthenticated
    /\ isLoading' = SetState(isLoading, FALSE)
    /\ effectPending' = (provider = "part_004" /\ user' # user)
    /\ cookies' = IF provider = "part_004" THEN ApplySetCookie(cookies, resp) ELSE cookies
    /\ last' = Done("initializeAuth", resp, Quiet, req.stale)
    /\ UNCHANGED <<edgeVars, deployVars, cartVars, viewVars, phase, navVars>>

\* a consumer calls refreshAuth(); it runs up to its await, or to its end when
\* there is no token
RefreshAuth ==
  /\ Idle
  /\ provider = "part_004"
  /\ LET token == ProviderToken(localStorage)
     IN  IF Truthy(token)
         THEN /\ Issue("refreshAuth", token, None)
              /\ isLoading' = TRUE
              /\ last' = [op |-> "refreshAuth.call"]
              /\ UNCHANGED <<localStorage, user, isAuthenticated, effectPending,
                             route, loading>>
         ELSE /\ localStorage' = removeCamelTokens(localStorage)
              /\ user' = None
              /\ isAuthenticated' = FALSE
              /\ isLoading' = FALSE
              /\ effectPending' = (user # None)
              /\ Push("/login")
              /\ last' = Done("refreshAuth", NoFetch, Quiet, FALSE)
              /\ UNCHANGED netVars
  /\ UNCHANGED <<cookies, edgeVars, deployVars, cartVars, viewVars, phase, hrefPending, timer>>

\* verifyAuth of refreshAuth resolves and refreshAuth runs to its end
RefreshAuthResolve ==
  \E req \in inflight, resp \in VerifyResponses :
    /\ req.op = "refreshAuth"
    /\ ~ViewStale
    /\ inflight' = Resolve(req)
    /\ LET result == verifyAuth(resp)
       IN  IF result # None /\ result[1].user # None
           THEN /\ user' = SetState(user, result[1].user)
                /\ isAuthenticated' = SetState(isAuthenticated, TRUE)
                /\ UNCHANGED <<localStorage, route, loading>>
           ELSE /\ user' = SetState(user, None)
                /\ isAuthenticated' = SetState(isAuthenticated, FALSE)
                /\ localStorage' = removeCamelTokens(localStorage)
                /\ Push("/login")
    /\ isLoading' = SetState(isLoading, FALSE)
    /\ effectPending' = (user' # user)
    /\ cookies' = ApplySetCookie(cookies, resp)
    /\ last' = Done("refreshAuth", resp, Quiet, req.stale)
    /\ UNCHANGED <<edgeVars, deployVars, cartVars, viewVars, phase, hrefPending, timer>>

\* the finally block of AuthProvider.logout
LogoutFinally(resp) ==
  /\ localStorage' = IF provider = "auth-context.tsx"
                     THEN removeTokens(localStorage)
                     ELSE removeCamelTokens(localStorage)
  /\ user' = SetState(user, None)
  /\ isAuthenticated' = SetState(isAuthenticated, IF provider = "part_004" THEN FALSE ELSE isAuthenticated)
  /\ effectPending' = (provider = "part_004" /\ user # None)
  /\ Push("/login")
  /\ last' = Done("AuthProvider.logout", resp, Quiet, FALSE)
  /\ UNCHANGED <<isLoading, phase, hrefPending, timer>>

\* a consumer calls the context's logout()
ProviderLogout ==
  /\ Idle
  /\ IF provider = "auth-context.tsx" \/ Truthy(ProviderToken(localStorage))
     THEN /\ Issue("AuthProvider.logout", ProviderToken(localStorage), None)
          /\ last' = [op |-> "AuthProvider.logout.call"]
          /\ UNCHANGED <<localStorage, ctxVars, navVars>>
     ELSE /\ LogoutFinally(NoFetch)
          /\ UNCHANGED netVars
  /\ UNCHANGED <<cookies, edgeVars, deployVars, cartVars, viewVars>>

\* the fetch of AuthProvider.logout settles, whatever its outcome
ProviderLogoutResolve ==
  \E req \in inflight, resp \in LogoutResponses :
    /\ req.op = "AuthProvider.logout"
    /\ ~ViewStale
    /\ inflight' = Resolve(req)
    /\ LogoutFinally(resp)
    /\ cookies' = IF provider = "part_004" THEN ApplySetCookie(cookies, resp) ELSE cookies
    /\ UNCHANGED <<edgeVars, deployVars, cartVars, viewVars>>

\* a consumer calls the context's setUser
SetUser ==
  \E u \in {None, Some(U1)} :
    /\ Idle
    /\ u # user
    /\ user' = u
    /\ effectPending' = (provider = "part_004")
    /\ last' = [op |-> "setUser"]
    /\ UNCHANGED <<storeVars, edgeVars, deployVars, cartVars, viewVars, phase, isLoading,
                   isAuthenticated, netVars, navVars>>

\* useEffect(() => setIsAuthenticated(!!user), [user])
SyncIsAuthenticated ==
  /\ phase = "mounted"
  /\ effectPending
  /\ effectPending' = FALSE
  /\ isAuthenticated' = (user # None)
  /\ last' = [op |-> "effect"]
  /\ UNCHANGED <<storeVars, edgeVars, deployVars, cartVars, viewVars, phase, user, isLoading,
                 netVars, navVars>>

\* ProtectedRoute without its second effect: the status is copied, nothing is pushed
ProtectedRouteEffect_noPush ==
  /\ ViewStale
  /\ ~effectPending
  /\ authStatus' = ContextStatus
  /\ last' = [op |-> "ProtectedRoute.effect"]
  /\ UNCHANGED <<storeVars, edgeVars, deployVars, cartVars, ctxVars, netVars, navVars>>

\* the two effects of ProtectedRoute run after a render that changed
\* isLoading or isAuthenticated
ProtectedRouteEffect ==
  /\ ViewStale
  /\ ~effectPending
  /\ authStatus' = ContextStatus
  /\ IF ~isLoading /\ ~ExposedIsAuthenticated
     THEN Push("/login")
     ELSE UNCHANGED <<route, loading>>
  /\ last' = [op |-> "ProtectedRoute.effect"]
  /\ UNCHANGED <<storeVars, edgeVars, deployVars, cartVars, ctxVars, netVars, hrefPending, timer>>

----------------------------------------------------------------------------
(* The pages' calls into the auth library *)

\* LoginPage.handleSubmit up to the await of login(): validateForm, then the
\* POST with the lower-cased email
LoginSubmit ==
  \E form \in AcceptedLoginForms :
    /\ Idle
    /\ route = "/login" /\ ~loading
    /\ loading' = TRUE
    /\ Issue("login", IF lib = "auth.ts" THEN getAccessToken(localStorage) ELSE None,
             [email |-> toLowerCase(form.email), password |-> form.password,
              form |-> form])
    /\ last' = [op |-> "login.call"]
    /\ UNCHANGED <<storeVars, edgeVars, deployVars, cartVars, viewVars, ctxVars, hrefPending, route, timer>>

\* login() settles and handleSubmit runs to its end
LoginResolve ==
  \E req \in inflight, resp \in AuthResponses :
    /\ req.op = "login"
    /\ inflight' = Resolve(req)
    /\ LET r == login(lib, localStorage, resp)
           form == req.body.form
       IN  /\ localStorage' =
                IF r.threw THEN r.ls
                ELSE IF form.rememberMe
                     THEN setItem(r.ls, "rememberedEmail", Str(form.email))
                     ELSE removeItem(r.ls, "rememberedEmail")
           /\ hrefPending' = (hrefPending \/ r.href)
           /\ timer' = IF r.threw THEN timer ELSE "/dashboard"
           /\ last' = [sent |-> req.body] @@ Done("login", resp, r, FALSE)
    /\ cookies' = ApplySetCookie(cookies, resp)
    /\ loading' = (loading /\ route # "/login")
    /\ UNCHANGED <<edgeVars, deployVars, cartVars, viewVars, ctxVars, route>>

\* SignupPage.handleSubmit up to the await of signup()
SignupSubmit ==
  \E form \in AcceptedSignupForms :
    /\ Idle
    /\ route = "/signup" /\ ~loading
    /\ loading' = TRUE
    /\ Issue("signup", IF lib = "auth.ts" THEN getAccessToken(localStorage) ELSE None,
             [username |-> trim(form.username), email |-> toLowerCase(form.email),
              phone_contact |-> form.phone_contact, password |-> form.password])
    /\ last' = [op |-> "signup.call"]
    /\ UNCHANGED <<storeVars, edgeVars, deployVars, cartVars, viewVars, ctxVars, hrefPending, route, timer>>

\* signup() settles and handleSubmit runs to its end
SignupResolve ==
  \E req \in inflight, resp \in AuthResponses :
    /\ req.op = "signup"
    /\ inflight' = Resolve(req)
    /\ LET r == signup(lib, localStorage, resp)
       IN  /\ localStorage' = r.ls
           /\ hrefPending' = (hrefPending \/ r.href)
           /\ timer' = IF r.threw THEN timer ELSE "/login"
           /\ last' = [sent |-> req.body] @@ Done("signup", resp, r, FALSE)
    /\ cookies' = ApplySetCookie(cookies, resp)
    /\ loading' = (loading /\ route # "/signup")
    /\ UNCHANGED <<edgeVars, deployVars, cartVars, viewVars, ctxVars, route>>

\* a page calls the library's logout()
LogoutCall ==
  /\ Idle
  /\ Issue("logout", IF lib = "auth.ts" THEN getAccessToken(localStorage) ELSE None, None)
  /\ last' = [op |-> "logout.call"]
  /\ UNCHANGED <<storeVars, edgeVars, deployVars, cartVars, viewVars, ctxVars, navVars>>

\* the library's logout() settles
LogoutResolve ==
  \E req \in inflight, resp \in LogoutResponses :
    /\ req.op = "logout"
    /\ inflight' = Resolve(req)
    /\ LET r == logout(lib, localStorage, resp)
       IN  /\ localStorage' = r.ls
           /\ hrefPending' = (hrefPending \/ r.href)
           /\ last' = [api |-> apiClient(lib, localStorage, resp)]
                        @@ Done("logout", resp, r, FALSE)
    /\ cookies' = ApplySetCookie(cookies, resp)
    /\ UNCHANGED <<edgeVars, deployVars, cartVars, viewVars, ctxVars, route, timer, loading>>

\* a page calls apiClient() for some endpoint
ApiCall ==
  /\ Idle
  /\ Issue("apiClient", IF lib = "auth.ts" THEN getAccessToken(localStorage) ELSE None,
           None)
  /\ last' = [op |-> "apiClient.call"]
  /\ UNCHANGED <<storeVars, edgeVars, deployVars, cartVars, viewVars, ctxVars, navVars>>

\* that apiClient() call settles
ApiResolve ==
  \E req \in inflight, resp \in ApiResponses :
    /\ req.op = "apiClient"
    /\ inflight' = Resolve(req)
    /\ LET r == apiClient(lib, localStorage, resp)
       IN  /\ localStorage' = r.ls
           /\ hrefPending' = (hrefPending \/ r.href)
           /\ last' = Done("apiClient", resp, r, FALSE)
    /\ cookies' = ApplySetCookie(cookies, resp)
    /\ UNCHANGED <<edgeVars, deployVars, cartVars, viewVars, ctxVars, route, timer, loading>>

\* the setTimeout(() => router.push(...), 500) of a successful submit fires
TimerFires ==
  /\ timer # ""
  /\ Push(timer)
  /\ timer' = ""
  /\ last' = [op |-> "timer"]
  /\ authStatus' = "loading"
  /\ UNCHANGED <<storeVars, edgeVars, deployVars, cartVars, ctxVars, netVars, hrefPending>>

\* the assignment to window.location.href takes effect: the document is
\* replaced, its pending fetches and React state are gone, storage stays
PageReload ==
  /\ hrefPending
  /\ phase' = "rendered"
  /\ user' = None
  /\ isLoading' = TRUE
  /\ isAuthenticated' = FALSE
  /\ effectPending' = FALSE
  /\ inflight' = {}
  /\ hrefPending' = FALSE
  /\ route' = "/login"
  /\ timer' = ""
  /\ loading' = FALSE
  /\ last' = [op |-> "reload"]
  /\ authStatus' = "loading"
  /\ UNCHANGED <<storeVars, edgeVars, deployVars, cartVars>>

\* The AuthProvider with its consumers, and the pages' apiClient and logout calls
Next ==
  \/ ProviderMount \/ InitializeAuthResolve
  \/ RefreshAuth \/ RefreshAuthResolve
  \/ ProviderLogout \/ ProviderLogoutResolve
  \/ SetUser \/ SyncIsAuthenticated \/ ProtectedRouteEffect
  \/ LogoutCall \/ LogoutResolve
  \/ ApiCall \/ ApiResolve
  \/ PageReload

Spec == Init /\ [][Next]_vars

\* the AuthProvider is unmounted: neither effect returns a cleanup function and
\* no fetch carries an AbortSignal, so the fetches in flight stay in flight
Unmount ==
  /\ phase = "mounted"
  /\ phase' = "unmounted"
  /\ effectPending' = FALSE
  /\ last' = [op |-> "unmount"]
  /\ UNCHANGED <<storeVars, edgeVars, deployVars, cartVars, viewVars, user, isLoading,
                 isAuthenticated, netVars, navVars>>

NextTeardown == Next \/ Unmount

SpecTeardown == Init /\ [][NextTeardown]_vars

\* the effects of a render run, and every fetch of the provider settles (the
\* network answers or fails), however often other events come in between
FairProvider ==
  /\ WF_vars(ProviderMount)
  /\ WF_vars(SyncIsAuthenticated) /\ WF_vars(ProtectedRouteEffect)
  /\ SF_vars(InitializeAuthResolve) /\ SF_vars(RefreshAuthResolve)
  /\ SF_vars(ProviderLogoutResolve)

SpecLive == Spec /\ FairProvider

\* The login and signup pages under the AuthProvider
NextForms ==
  \/ ProviderMount \/ InitializeAuthResolve \/ ProtectedRouteEffect
  \/ LoginSubmit \/ LoginResolve
  \/ SignupSubmit \/ SignupResolve
  \/ TimerFires \/ PageReload

SpecForms == InitForms /\ [][NextForms]_vars

----------------------------------------------------------------------------
(* Navigation: the edge and the view layer together *)

\* the pathname the router requests for a route
RoutePath(r) ==
  CASE r = "/login" -> P_login
    [] r = "/signup" -> P_signup
    [] r = "/dashboard" -> P_dashboard
    [] OTHER -> P_root

\* the address bar names a page that has not been requested yet
Pending == [kind |-> "pending"]

\* the user opens the dashboard, with any cookie jar and any stored tokens
InitNav ==
  /\ localStorage \in LoadedStores
  /\ cookies \in {<< >>, [access_token |-> "abc"], [session |-> "abc"]}
  /\ last = NoOp
  /\ mw \in MwSources
  /\ validSessions \in SUBSET {"abc"}
  /\ response = Pending
  /\ provider \in ProviderSources
  /\ lib = "auth.ts"
  /\ route = "/dashboard"
  /\ InitClient

\* the browser (first load) or the router (after router.push) requests the
\* page of the current route; the request passes the edge
NavRequest ==
  /\ \/ response.kind = "pending"
     \/ response.kind = "landed" /\ Str(response.to) # route
  /\ PageRequest(RoutePath(route))

\* the page the edge let through is shown; a ProtectedRoute on it mounts
\* with its initial state
Land ==
  /\ response.kind \in {"next", "bypass"}
  /\ response' = [response EXCEPT !.kind = "landed"]
  /\ route' = Str(response.to)
  /\ authStatus' = "loading"
  /\ loading' = FALSE
  /\ UNCHANGED <<storeVars, last, mw, validSessions, deployVars, cartVars, ctxVars, netVars,
                 hrefPending, timer>>

NextNav ==
  \/ NavRequest \/ FollowRedirect \/ Land
  \/ ProviderMount \/ InitializeAuthResolve
  \/ SyncIsAuthenticated \/ ProtectedRouteEffect

\* every request is answered, every answer is followed, every effect runs
FairNav ==
  /\ WF_vars(NavRequest) /\ WF_vars(FollowRedirect) /\ WF_vars(Land)
  /\ WF_vars(ProviderMount) /\ WF_vars(InitializeAuthResolve)
  /\ WF_vars(SyncIsAuthenticated) /\ WF_vars(ProtectedRouteEffect)

SpecNav == InitNav /\ [][NextNav]_vars /\ FairNav

----------------------------------------------------------------------------
(* The cart page (app/cart/page.tsx) *)

MinQuantity == 1
MaxQuantity == 99

ItemIds == {"a", "b"}

\* the quantities updateQuantity is called with
Quantities == {0, 1, 99, 100}

Item(id, quantity) == [id |-> id, quantity |-> quantity]

\* what GET /api/cart has delivered to the page (data.items)
FetchedCarts ==
  {<<Item("a", 1), Item("b", 99)>>, <<Item("a", 99), Item("b", 1)>>, <<Item("a", 1)>>}

\* the backend's cart the page's items were read from
CartOf(items) ==
  [id \in {items[k].id : k \in DOMAIN items} |->
     (CHOOSE k \in DOMAIN items : items[k].id = id) ]

RECURSIVE MapSeq(_, _, _)
\* prev.map(item => item.id === itemId ? { ...item, quantity: newQuantity } : item)
MapSeq(prev, itemId, newQuantity) ==
  IF prev = << >> THEN << >>
  ELSE <<IF Head(prev).id = itemId
         THEN [Head(prev) EXCEPT !.quantity = newQuantity]
         ELSE Head(prev)>> \o MapSeq(Tail(prev), itemId, newQuantity)

RECURSIVE FilterSeq(_, _)
\* prev.filter(item => item.id !== itemId)
FilterSeq(prev, itemId) ==
  IF prev = << >> THEN << >>
  ELSE (IF Head(prev).id # itemId THEN <<Head(prev)>> ELSE << >>)
         \o FilterSeq(Tail(prev), itemId)

\* the sequence without its i-th element
Without(seq, i) == SubSeq(seq, 1, i - 1) \o SubSeq(seq, i + 1, Len(seq))

\* the guard of updateQuantity that lets every quantity through
InRange_unchecked(newQuantity) == TRUE

\* the negation of: if (newQuantity < 1 || newQuantity > 99) return
InRange(newQuantity) == ~(newQuantity < MinQuantity \/ newQuantity > MaxQuantity)

\* the ids of the items the page shows
Shown == {cartItems[k].id : k \in DOMAIN cartItems}

InitCart ==
  /\ localStorage = << >>
  /\ cookies = << >>
  /\ last = NoOp
  /\ mw = "middleware.ts"
  /\ validSessions = {}
  /\ response = NoResponse
  /\ provider = "auth-context.tsx"
  /\ lib = "auth.ts"
  /\ route = "/cart"
  /\ phase = "rendered"
  /\ user = None
  /\ isLoading = TRUE
  /\ isAuthenticated = FALSE
  /\ effectPending = FALSE
  /\ inflight = {}
  /\ hrefPending = FALSE
  /\ timer = ""
  /\ loading = FALSE
  /\ authStatus = "loading"
  /\ cartItems \in FetchedCarts
  /\ serverCart = [id \in Shown |-> cartItems[CartOf(cartItems)[id]].quantity]
  /\ cartRequests = << >>

\* updateQuantity(itemId, newQuantity) up to its await: the range check, then the PATCH
UpdateQuantity ==
  \E itemId \in Shown, newQuantity \in Quantities :
    /\ IF InRange(newQuantity)
       THEN /\ Len(cartRequests) < MaxInFlight
            /\ cartRequests' = Append(cartRequests,
                  [op |-> "PATCH", id |-> itemId, quantity |-> newQuantity,
                   stage |-> "sent"])
       ELSE UNCHANGED cartRequests
    /\ last' = [op |-> "updateQuantity", id |-> itemId, quantity |-> newQuantity]
    /\ UNCHANGED <<storeVars, edgeVars, deployVars, ctxVars, netVars, navVars, viewVars,
                   cartItems, serverCart>>

\* removeItem(itemId) up to its await: the DELETE
RemoveItem ==
  \E itemId \in Shown :
    /\ Len(cartRequests) < MaxInFlight
    /\ cartRequests' = Append(cartRequests,
          [op |-> "DELETE", id |-> itemId, quantity |-> 0, stage |-> "sent"])
    /\ last' = [op |-> "removeItem", id |-> itemId]
    /\ UNCHANGED <<storeVars, edgeVars, deployVars, ctxVars, netVars, navVars, viewVars,
                   cartItems, serverCart>>

\* the backend handles one of the requests that reached it, in any order: it
\* applies the request to an item it holds, or answers non-2xx and changes nothing
ServerHandles ==
  \E i \in DOMAIN cartRequests, ok \in BOOLEAN :
    LET req == cartRequests[i]
    IN  /\ req.stage = "sent"
        /\ ok => req.id \in DOMAIN serverCart
        /\ serverCart' =
             IF ~ok THEN serverCart
             ELSE IF req.op = "PATCH"
             THEN [serverCart EXCEPT ![req.id] = req.quantity]
             ELSE [id \in (DOMAIN serverCart) \ {req.id} |-> serverCart[id]]
        /\ cartRequests' =
             [cartRequests EXCEPT ![i].stage = IF ok THEN "ok" ELSE "rejected"]
        /\ last' = [op |-> "server", req |-> req, ok |-> ok]
        /\ UNCHANGED <<storeVars, edgeVars, deployVars, ctxVars, netVars, navVars,
                       viewVars, cartItems>>

\* one fetch of the page settles, in any order, and its handler runs to the
\* end: the response of a handled request arrives, or the fetch of a request
\* that did not reach the backend rejects
CartResolve ==
  \E i \in DOMAIN cartRequests :
    LET req == cartRequests[i]
        outcome == IF req.stage = "sent" THEN "network" ELSE req.stage
    IN  /\ cartItems' =
             IF outcome # "ok" THEN cartItems
             ELSE IF req.op = "PATCH" THEN MapSeq(cartItems, req.id, req.quantity)
             ELSE FilterSeq(cartItems, req.id)
        /\ cartRequests' = Without(cartRequests, i)
        /\ last' = [op |-> "cart.resolve", req |-> req, outcome |-> outcome,
                    before |-> cartItems]
        /\ UNCHANGED <<storeVars, edgeVars, deployVars, ctxVars, netVars, navVars,
                       viewVars, serverCart>>

NextCart == UpdateQuantity \/ RemoveItem \/ ServerHandles \/ CartResolve

SpecCart == InitCart /\ [][NextCart]_vars

----------------------------------------------------------------------------
(* Claims *)

\* this step is the resolution of a fetch issued by op
Resolves(op) == inflight' # inflight /\ last'.op = op

(* C1: in every state the Auth Context exposes to its consumers,            *)
(* isAuthenticated is true exactly when user is not null.                   *)
C1_IsAuthenticatedIffUser == ExposedIsAuthenticated <=> (user # None)

(* C12: in every render ProtectedRoute returns its children only if the     *)
(* Auth Context is Authenticated in that render (isLoading false and        *)
(* isAuthenticated true).                                                   *)
C12_ChildrenOnlyWhenAuthenticated ==
  ChildrenRendered => (~isLoading /\ ExposedIsAuthenticated)

(* C2: after logout() has resolved (the library's logout or the             *)
(* AuthProvider's), whatever the outcome of its request, getAccessToken()   *)
(* returns no credential.                                                   *)
C2_LogoutClearsStore ==
  ((last.op = "logout" /\ lib = "auth.ts") \/ last.op = "AuthProvider.logout")
    => getAccessToken(localStorage) = None

\* no credential under either spelling of the token key and no session cookie
CredentialAbsent ==
  /\ getAccessToken(localStorage) = None
  /\ getItem(localStorage, "accessToken") = None
  /\ getItem(cookies, "session") = None

(* C3: in every reachable state of the client, if the Token/Session Store   *)
(* holds no credential then the Auth Context's user is null.                *)
C3_NoCredentialNoUser == CredentialAbsent => user = None

(* C4: when a verification request resolves after a request issued later    *)
(* has already resolved, its resolution is discarded: user and              *)
(* isAuthenticated keep the values the later request gave them.             *)
C4_StaleVerifyDiscarded ==
  [][((Resolves("initializeAuth") \/ Resolves("refreshAuth")) /\ last'.stale)
       => /\ user' = user
          /\ ExposedIsAuthenticated' = ExposedIsAuthenticated]_vars

\* what a read of the Token/Session Store returns: the access token of
\* lib/auth.ts, the session cookie lib/utils.ts relies on
ReadCredential ==
  IF lib = "auth.ts" THEN getAccessToken(localStorage) ELSE getItem(cookies, "session")

(* C5: when an apiClient call receives HTTP 401, the store is cleared and   *)
(* the navigation to /login is signalled before the call fails with the     *)
(* session-expired error; the next read of the store returns no credential. *)
C5_UnauthorizedClearsStore ==
  (last.op = "apiClient" /\ last.resp.status = 401)
    => /\ last.threw
       /\ last.message = SessionExpiredMessage
       /\ hrefPending
       /\ ReadCredential = None

\* the edge has answered a request that its matcher selected
Guarded == response.kind \in {"next", "redirect"}

\* the request carried no cookie with a non-empty value
NoCredential(jar) == \A n \in DOMAIN jar : jar[n] = ""

(* C6: a request without a credential for a matched, non-public path is     *)
(* never passed through: it is redirected to /login with the query          *)
(* parameter from carrying the requested path (/dashboard gives             *)
(* /login?from=%2Fdashboard).                                               *)
C6_NoCredentialRedirect ==
  (Guarded /\ response.pathname \notin publicPaths(mw) /\ NoCredential(response.jar))
    => /\ response.kind = "redirect"
       /\ response.to = P_login
       /\ response.from # None
       /\ FormDecode(response.from[1]) = response.pathname
       /\ response.pathname = P_dashboard =>
            Str(response.to) \o "?from=" \o Str(response.from[1])
              = "/login?from=%2Fdashboard"

\* /dashboard was requested with an empty cookie jar
C6_Witness ==
  /\ Guarded
  /\ response.pathname = P_dashboard
  /\ response.jar = << >>
  /\ response.kind = "redirect"

(* C7: a request to /login or /signup is redirected to /dashboard exactly   *)
(* when it carries a credential the backend's verify accepts; otherwise     *)
(* the page is served.                                                      *)
C7_LoginRedirectIffVerified ==
  (Guarded /\ response.pathname \in {P_login, P_signup})
    => ((response.kind = "redirect" /\ response.to = P_dashboard)
          <=> (response.valid /\ response.verify # "threw"))

(* C13: the edge passes a request for a protected path through only after  *)
(* a verify call for the request's credential has succeeded; presence of a  *)
(* credential cookie alone is not sufficient, and a verify call that is     *)
(* rejected or throws is answered with a redirect to /login.                *)
C13_ProtectedPassNeedsVerify ==
  (Guarded /\ response.pathname \notin publicPaths(mw))
    => /\ response.kind = "next" => (response.verify = "ok" /\ response.valid)
       /\ response.verify \in {"rejected", "threw"}
            => (response.kind = "redirect" /\ response.to = P_login)

\* the login form is served: the /login page has passed the edge and is shown
LoginServed == response.kind = "landed" /\ response.to = P_login /\ route = "/login"

\* the dashboard has passed the edge and ProtectedRoute shows its children
ContentRendered ==
  response.kind = "landed" /\ response.to = P_dashboard /\ ChildrenRendered

(* C14: every navigation to the protected route settles: whatever the       *)
(* cookie, its validity and the stored tokens, the redirects of the edge    *)
(* and of ProtectedRoute end, and from then on either the protected content *)
(* is rendered or the login form is served.                                 *)
C14_NavigationSettles == <>[](LoginServed \/ ContentRendered)

(* C15: when an apiClient call receives a non-2xx response other than 401   *)
(* whose body is not valid JSON, it fails with an Error carrying the        *)
(* generic message, never with the JSON parser's exception.                 *)
C15_NonJsonErrorBody ==
  (/\ last.op = "apiClient"
   /\ last.resp.status \notin {0, 401} /\ ~Ok(last.resp) /\ ~last.resp.json)
    => /\ last.threw
       /\ last.name = "Error"
       /\ last.message = GenericMessage

(* C16: when login receives a non-2xx response (a 401 for wrong credentials *)
(* included) whose body parses, it fails with an Error carrying the         *)
(* backend's message, the store is left exactly as it was before the call,  *)
(* and no navigation is forced.                                             *)
C16_LoginFailureKeepsStore ==
  [][(/\ Resolves("login")
      /\ last'.resp.status # 0 /\ ~Ok(last'.resp) /\ last'.resp.json)
       => /\ last'.threw
          /\ last'.name = "Error"
          /\ (last'.resp.errors = None /\ last'.resp.message # None)
               => last'.message = last'.resp.message[1]
          /\ localStorage' = localStorage
          /\ hrefPending' = hrefPending]_vars

(* C17: logout() never surfaces a failure: when its request is rejected by  *)
(* the network, answered non-2xx or answered 401, logout() still resolves   *)
(* normally, and the local state it is in charge of is cleared.             *)
C17_LogoutNeverThrows ==
  last.op = "logout"
    => /\ ~last.threw
       /\ IF lib = "auth.ts"
          THEN /\ getAccessToken(localStorage) = None
               /\ getItem(localStorage, "refresh_token") = None
          ELSE getItem(localStorage, "user_data") = None

\* logout() has returned although its request was rejected by the network
C17_Witness ==
  /\ last.op = "logout"
  /\ last.resp = R_network
  /\ last.api.threw
  /\ ~last.threw

\* the verifications of the provider that have not resolved
VerifyInFlight == {r \in inflight : r.op \in VerifyOps}

(* C18: isLoading is true only before the mount effect has run or while a   *)
(* verification of initializeAuth or refreshAuth is in flight; only their   *)
(* completion sets it to false, each mount starts one initialization whose  *)
(* completion leaves it false; and whenever it is true it eventually        *)
(* becomes false, whatever the outcome of the verification.                 *)
C18_IsLoadingSettles ==
  /\ [](isLoading => (phase = "rendered" \/ VerifyInFlight # {}))
  /\ [](Cardinality({r \in inflight : r.op = "initializeAuth"}) <= 1)
  /\ [][/\ (isLoading /\ ~isLoading')
             => last'.op \in {"mount", "initializeAuth", "refreshAuth"}
        /\ (Cardinality({r \in inflight' : r.op = "initializeAuth"})
              > Cardinality({r \in inflight : r.op = "initializeAuth"}))
             => (phase = "rendered" /\ last'.op = "mount")
        /\ Resolves("initializeAuth") => ~isLoading']_vars
  /\ isLoading ~> ~isLoading

\* initialization has ended with a network error and isLoading is false
C18_Witness ==
  /\ last.op = "initializeAuth"
  /\ last.resp = R_network
  /\ ~isLoading
  /\ inflight = {}

NoStoredToken ==
  /\ ~Truthy(getAccessToken(localStorage))
  /\ ~Truthy(getItem(localStorage, "accessToken"))

(* C20: when the AuthProvider has mounted over a store that holds no        *)
(* credential, the context is Unauthenticated (user null, isAuthenticated   *)
(* false, isLoading false) and no verify request has been issued.           *)
C20_MountWithoutCredential ==
  (last.op = "mount" /\ NoStoredToken)
    => /\ user = None
       /\ ~ExposedIsAuthenticated
       /\ ~isLoading
       /\ inflight = {}

\* the provider has mounted over an empty localStorage
C20_Witness ==
  /\ last.op = "mount"
  /\ localStorage = << >>
  /\ phase = "mounted"
  /\ ~isLoading

\* the token keys, in both spellings, that localStorage holds
StoredTokenKeys ==
  DOMAIN localStorage \cap {"access_token", "refresh_token", "accessToken", "refreshToken"}

(* C21: when the mount-time verify of a stored credential is answered       *)
(* non-2xx or fails at the network level, the context is Unauthenticated    *)
(* (user null, isAuthenticated false, isLoading false) and the store is     *)
(* cleared: the provider's next read of the token returns none.             *)
C21_VerifyFailureClearsStore ==
  (last.op = "initializeAuth" /\ (last.resp.status = 0 \/ ~Ok(last.resp)))
    => /\ user = None
       /\ ~ExposedIsAuthenticated
       /\ ~isLoading
       /\ ProviderToken(localStorage) = None
       /\ StoredTokenKeys = {}

\* the mount-time verify was answered 401 and the stored tokens are gone
C21_Witness ==
  /\ last.op = "initializeAuth"
  /\ last.resp = R_401
  /\ provider = "part_004"
  /\ user = None
  /\ StoredTokenKeys = {}

(* C22: when the edge guard's verify call fails (rejected or thrown) for a  *)
(* protected path, the response redirects to /login and deletes the         *)
(* credential cookie, so that the browser's next request carries none.      *)
C22_VerifyFailureDeletesCookie ==
  (Guarded /\ response.pathname \notin publicPaths(mw)
           /\ response.verify \in {"rejected", "threw"})
    => /\ response.kind = "redirect"
       /\ response.to = P_login
       /\ cookieName(mw) \in response.deletes
       /\ ~Truthy(getItem(cookies, cookieName(mw)))

(* C23: for every non-2xx status other than 401 whose body parses, an       *)
(* apiClient call fails with the errors map's messages joined when the body *)
(* carries an errors map, and otherwise with the body's message, or the     *)
(* generic message when the body has none.                                  *)
C23_ErrorsMapForEveryStatus ==
  (/\ last.op = "apiClient"
   /\ last.resp.status \notin {0, 401} /\ ~Ok(last.resp) /\ last.resp.json)
    => /\ last.threw
       /\ last.name = "Error"
       /\ last.message =
            IF last.resp.errors # None THEN Join(last.resp.errors[1], ", ")
            ELSE IF Truthy(last.resp.message) THEN last.resp.message[1]
            ELSE GenericMessage

\* what ProtectedRoute returns in this render
ProtectedRouteOutput ==
  IF route = "/dashboard" /\ phase = "mounted"
  THEN CASE authStatus = "loading" -> "spinner"
         [] authStatus = "unauthenticated" -> "null"
         [] OTHER -> "children"
  ELSE "unmounted"

\* the context has settled to Unauthenticated under a mounted ProtectedRoute
SettledUnauthenticated ==
  /\ route = "/dashboard" /\ phase = "mounted"
  /\ ~effectPending
  /\ ~isLoading /\ ~ExposedIsAuthenticated

C25_LoginBothShapes ==
  (last.op = "login" /\ Ok(last.resp) /\ last.resp.json /\ last.resp.user # None)
    => /\ ~last.threw
       /\ (lib = "auth.ts" /\ last.resp.tokens # None)
            => getAccessToken(localStorage) = Some(last.resp.tokens[1].access_token)

(* C26: once the context's logout() has resolved, a verify request          *)
(* (initializeAuth or refreshAuth) that resolves afterwards with a user      *)
(* does not put the context back into Authenticated: user stays null and     *)
(* isAuthenticated false until a login or signup succeeds.                   *)
C26_LogoutNotUndoneByVerify ==
  [][(/\ last.op = "AuthProvider.logout"
      /\ user = None
      /\ Resolves("initializeAuth") \/ Resolves("refreshAuth")
      /\ Ok(last'.resp) /\ last'.resp.user # None)
       => /\ user' = None
          /\ ~ExposedIsAuthenticated']_vars

(* C27: after storeTokens(credential) the refresh token in the store is     *)
(* the one of that credential: when the credential has a refresh token the  *)
(* store holds it, and when it has none the store holds no refresh token,   *)
(* whatever an earlier call had stored.                                     *)
C27_RefreshTokenOfSameCall ==
  last.op = "storeTokens" =>
    /\ Truthy(last.tokens.refresh_token)
         => getItem(localStorage, "refresh_token") = last.tokens.refresh_token
    /\ last.tokens.refresh_token = None
         => getItem(localStorage, "refresh_token") = None

(* C28: the token that the auth library stores (key access_token) is the   *)
(* one the provider reads and clears: a mount over a stored token issues a  *)
(* verify request carrying that token, and after the provider's logout and  *)
(* after a failed mount-time verification that token is gone from the store.*)
C28_OneCredentialKey ==
  /\ (last.op = "mount" /\ Truthy(getAccessToken(localStorage)))
       => \E r \in inflight :
            r.op = "initializeAuth" /\ r.token = getAccessToken(localStorage)
  /\ last.op = "AuthProvider.logout" => getAccessToken(localStorage) = None
  /\ (last.op = "initializeAuth" /\ (last.resp.status = 0 \/ ~Ok(last.resp)))
       => getAccessToken(localStorage) = None

\* the quantity a list of items has for an item, None when it has no such item
QuantityIn(items, id) ==
  IF id \in DOMAIN CartOf(items) THEN Some(items[CartOf(items)[id]].quantity) ELSE None

\* the quantity the page shows for an item
LocalQuantity(id) == QuantityIn(cartItems, id)

\* the quantity the backend holds for an item, None when it holds no such item
ServerQuantity(id) ==
  IF id \in DOMAIN serverCart THEN Some(serverCart[id]) ELSE None

\* no PATCH or DELETE for the item is in flight
Settled(id) == \A i \in DOMAIN cartRequests : cartRequests[i].id # id

(* C29: on the cart page, when every updateQuantity and removeItem request  *)
(* for an item has resolved, the page shows for that item what the server   *)
(* last applied, also when requests for the item overlapped and their       *)
(* responses arrived in another order than the requests were handled.       *)
C29_CartConverges ==
  \A id \in ItemIds : Settled(id) => LocalQuantity(id) = ServerQuantity(id)

\* the items of a cart other than the given one, in their order
Others(items, id) == FilterSeq(items, id)

(* C30: the cart page changes cartItems only when a response confirms a     *)
(* request: a non-2xx answer and a rejected fetch leave cartItems as they   *)
(* were, a call of updateQuantity with a quantity below 1 or above 99       *)
(* leaves cartItems as they were and sends no request, and a confirmed      *)
(* request changes the targeted item only.                                  *)
C30_CartChangesOnConfirm ==
  [][/\ cartItems' # cartItems
          => (last'.op = "cart.resolve" /\ last'.outcome = "ok")
     /\ (last'.op = "cart.resolve" /\ last'.outcome # "ok") => cartItems' = cartItems
     /\ (/\ last'.op = "updateQuantity"
         /\ last'.quantity < MinQuantity \/ last'.quantity > MaxQuantity)
          => (cartItems' = cartItems /\ cartRequests' = cartRequests)
     /\ (last'.op = "cart.resolve" /\ last'.outcome = "ok")
          => /\ Others(cartItems', last'.req.id) = Others(cartItems, last'.req.id)
             /\ QuantityIn(cartItems', last'.req.id) =
                  IF last'.req.id \notin Shown THEN None
                  ELSE IF last'.req.op = "PATCH" THEN Some(last'.req.quantity)
                  ELSE None]_vars

\* a confirmed PATCH has changed the quantity of one of two shown items
C30_Witness ==
  /\ last.op = "cart.resolve"
  /\ last.outcome = "ok"
  /\ last.req.op = "PATCH"
  /\ Len(cartItems) = 2
  /\ cartItems # last.before

(* C8: after a login submitted with a mixed-case email succeeds with user   *)
(* and tokens, the email was sent lower-cased, the store holds the returned *)
(* access token, and the Auth Context is Authenticated (user not null,      *)
(* isAuthenticated true).                                                   *)
C8_LoginAuthenticates ==
  (/\ last.op = "login" /\ lib = "auth.ts"
   /\ ~last.threw /\ last.resp.tokens # None /\ last.sent.form.email = E_mixed)
    => /\ last.sent.email = E_lower
       /\ getAccessToken(localStorage) = Some(last.resp.tokens[1].access_token)
       /\ user # None
       /\ ExposedIsAuthenticated

(* C9: when signup receives a 400 response whose body carries an errors     *)
(* map, it fails with an Error whose message is the errors' messages joined *)
(* with ", " (a single error "already taken" gives exactly "already         *)
(* taken"); nothing is stored and the Session-state is left as it was.      *)
C9_SignupValidationFails ==
  [][(Resolves("signup") /\ last'.resp.status = 400 /\ last'.resp.errors # None)
       => /\ last'.threw /\ last'.name = "Error"
          /\ last'.resp.errors[1] = <<"already taken">> => last'.message = "already taken"
          /\ last'.resp.errors[1] = <<"already taken", "too weak">>
               => last'.message = "already taken, too weak"
          /\ localStorage' = localStorage
          /\ user' = user
          /\ ExposedIsAuthenticated' = ExposedIsAuthenticated
          /\ timer' = timer]_vars

\* signup was answered 400 {errors: {email: "already taken"}} while unauthenticated
C9_Witness ==
  /\ last.op = "signup"
  /\ last.resp = R_400_taken
  /\ last.message = "already taken"
  /\ user = None /\ ~ExposedIsAuthenticated
  /\ getAccessToken(localStorage) = None

(* C10: for every credential and every prior store content, the read that  *)
(* immediately follows storeTokens(credential) returns the credential's    *)
(* access token.                                                           *)
C10_StoreThenRead ==
  last.op = "storeTokens" =>
    getAccessToken(localStorage) = Some(last.tokens.access_token)

\* storeTokens has overwritten a different prior access token
C10_Witness ==
  /\ last.op = "storeTokens"
  /\ getAccessToken(last.before) = Some("xyz")
  /\ last.tokens.access_token = "abc"

(* C11: a removeTokens() call that directly follows another leaves the      *)
(* store as the first one left it, a removeTokens() call on an empty store  *)
(* leaves it empty, and after any removeTokens() call neither token key can *)
(* be read.                                                                 *)
C11_RemoveTokensIdempotent ==
  [][last'.op = "removeTokens"
       => /\ last.op = "removeTokens" => localStorage' = localStorage
          /\ localStorage = << >> => localStorage' = << >>
          /\ getAccessToken(localStorage') = None
          /\ getItem(localStorage', "refresh_token") = None]_vars

\* removeTokens() has been called on a store that was already empty
C11_Witness ==
  /\ last.op = "removeTokens"
  /\ last.before = << >>
  /\ localStorage = << >>

====
